---- MODULE Spec2Model ----
(***************************************************************************)
(* Model of ring_buffer_no_std::RingBuffer<T, S> (src/src/lib.rs): a       *)
(* fixed-capacity circular buffer with head/tail cursors and a live count. *)
(* Every method is a pure operator on the struct value (a record with the  *)
(* fields buffer, head, tail, len) that returns the new struct value and   *)
(* the method's result; one action per method applies it to the state.     *)
(***************************************************************************)
EXTENDS Integers, Sequences, FiniteSets, TLC

\* Largest capacity S explored (S ranges over 1..MaxS).
MaxS == 3
\* Longest slice passed to write and longest output buffer passed to read.
MaxData == 3

\* The element type.  T is any Default + Copy type and no method inspects an
\* element (elements are only copied), so the model instantiates T = bool,
\* whose default is false.
Values == BOOLEAN
Default == FALSE

VARIABLES
    S,        \* const generic S: the capacity, fixed at construction
    buffer,   \* self.buffer : [T; S], indexed 0..S-1
    head,     \* self.head   : next write slot
    tail,     \* self.tail   : next read slot
    len,      \* self.len    : number of live elements
    call,     \* the last call made: method, argument, result
    pre,      \* the struct value right before the last call
    queue,    \* abstract FIFO contents (specification variable)
    queue0,   \* abstract FIFO contents right before the last call
    pc,       \* wraparound scenario: phase
    k,        \* wraparound scenario: number of items popped and re-pushed
    hist,     \* wraparound scenario: items pushed since the buffer was empty
    got,      \* wraparound scenario: items returned by the final pops
    ok,       \* wraparound scenario: every push so far returned Ok
    twin,     \* clear scenario: a second buffer, created by new()
    agree     \* clear scenario: both buffers returned the same results so far

scvars == <<pc, k, hist, got, ok, twin, agree>>
vars == <<S, buffer, head, tail, len, call, pre, queue, queue0, pc, k, hist, got, ok,
          twin, agree>>

\* The struct value held in the state.
Self == [buffer |-> buffer, head |-> head, tail |-> tail, len |-> len]

Min(a, b) == IF a <= b THEN a ELSE b

\* Count / length arguments passed to pop_continuous and read_slice: 0..S+1,
\* so that every len has a request that exceeds it.
Counts == 0..(S + 1)

SeqsUpTo(n) == UNION {[1..m -> Values] : m \in 0..n}

(***************************************************************************)
(* The methods.                                                            *)
(***************************************************************************)

new == [buffer |-> [i \in 0..(S - 1) |-> Default], head |-> 0, tail |-> 0, len |-> 0]

\* Faulty push: overwrites the oldest element when full instead of rejecting.
push_overwrite(self, item) ==
    IF self.len = S
    THEN [rb |-> [self EXCEPT !.buffer[self.head] = item,
                              !.head = (self.head + 1) % S,
                              !.tail = (self.tail + 1) % S],
          tag |-> "Ok"]
    ELSE [rb |-> [self EXCEPT !.buffer[self.head] = item,
                              !.head = (self.head + 1) % S,
                              !.len = self.len + 1],
          tag |-> "Ok"]

\* Faulty push: advances head before storing the item.
push_store_after_advance(self, item) ==
    IF self.len = S
    THEN [rb |-> self, tag |-> "Full"]
    ELSE [rb |-> [self EXCEPT !.buffer[(self.head + 1) % S] = item,
                              !.head = (self.head + 1) % S,
                              !.len = self.len + 1],
          tag |-> "Ok"]

push(self, item) ==
    IF self.len = S
    THEN [rb |-> self, tag |-> "Full"]
    ELSE [rb |-> [self EXCEPT !.buffer[self.head] = item,
                              !.head = (self.head + 1) % S,
                              !.len = self.len + 1],
          tag |-> "Ok"]

\* Faulty pop: returns the newest element (the slot before head).
pop_newest(self) ==
    IF self.len = 0
    THEN [rb |-> self, tag |-> "None", val |-> Default]
    ELSE [rb |-> [self EXCEPT !.tail = (self.tail + 1) % S,
                              !.len = self.len - 1],
          tag |-> "Some", val |-> self.buffer[(self.head + S - 1) % S]]

\* Faulty pop: no emptiness check.
pop_unguarded(self) ==
    [rb |-> [self EXCEPT !.tail = (self.tail + 1) % S,
                         !.len = self.len - 1],
     tag |-> "Some", val |-> self.buffer[self.tail]]

pop(self) ==
    IF self.len = 0
    THEN [rb |-> self, tag |-> "None", val |-> Default]
    ELSE [rb |-> [self EXCEPT !.tail = (self.tail + 1) % S,
                              !.len = self.len - 1],
          tag |-> "Some", val |-> self.buffer[self.tail]]

\* Faulty clear: resets the cursors but forgets len.
clear_keeps_len(self) == [self EXCEPT !.head = 0, !.tail = 0]

\* Faulty clear: resets head and len but leaves tail where it was.
clear_keeps_tail(self) == [self EXCEPT !.head = 0, !.len = 0]

\* Faulty clear: resets len only and leaves both cursors where they were.
clear_keeps_cursors(self) == [self EXCEPT !.len = 0]

clear(self) == [self EXCEPT !.head = 0, !.tail = 0, !.len = 0]

capacity(self) == S

remaining_capacity(self) == S - self.len

is_empty(self) == self.len = 0

\* Faulty is_full: takes coinciding cursors for a full buffer.
is_full_cursors(self) == self.head = self.tail

is_full(self) == self.len = S

get_len(self) == self.len

\* Faulty pop_continuous: checks count against the capacity, not the length.
pop_continuous_capacity_check(self, count) ==
    IF count > S
    THEN [rb |-> self, tag |-> "BeyondRange", val |-> 0]
    ELSE LET after == [self EXCEPT !.tail = (self.tail + count) % S,
                                   !.len = self.len - count]
         IN  [rb |-> after, tag |-> "Ok", val |-> remaining_capacity(after)]

\* Faulty pop_continuous: discards what there is before reporting BeyondRange.
pop_continuous_partial(self, count) ==
    IF count > self.len
    THEN [rb |-> [self EXCEPT !.tail = (self.tail + self.len) % S, !.len = 0],
          tag |-> "BeyondRange", val |-> 0]
    ELSE LET after == [self EXCEPT !.tail = (self.tail + count) % S,
                                   !.len = self.len - count]
         IN  [rb |-> after, tag |-> "Ok", val |-> remaining_capacity(after)]

\* Faulty pop_continuous: returns the remaining capacity from before the call.
pop_continuous_stale_capacity(self, count) ==
    IF count > self.len
    THEN [rb |-> self, tag |-> "BeyondRange", val |-> 0]
    ELSE LET after == [self EXCEPT !.tail = (self.tail + count) % S,
                                   !.len = self.len - count]
         IN  [rb |-> after, tag |-> "Ok", val |-> remaining_capacity(self)]

\* Faulty pop_continuous: decrements len but forgets to advance tail.
pop_continuous_keeps_tail(self, count) ==
    IF count > self.len
    THEN [rb |-> self, tag |-> "BeyondRange", val |-> 0]
    ELSE LET after == [self EXCEPT !.len = self.len - count]
         IN  [rb |-> after, tag |-> "Ok", val |-> remaining_capacity(after)]

\* Faulty pop_continuous: advances tail but forgets to decrement len.
pop_continuous_keeps_len(self, count) ==
    IF count > self.len
    THEN [rb |-> self, tag |-> "BeyondRange", val |-> 0]
    ELSE LET after == [self EXCEPT !.tail = (self.tail + count) % S]
         IN  [rb |-> after, tag |-> "Ok", val |-> remaining_capacity(after)]

pop_continuous(self, count) ==
    IF count > self.len
    THEN [rb |-> self, tag |-> "BeyondRange", val |-> 0]
    ELSE LET after == [self EXCEPT !.tail = (self.tail + count) % S,
                                   !.len = self.len - count]
         IN  [rb |-> after, tag |-> "Ok", val |-> remaining_capacity(after)]

\* Faulty write loop: drops the result of push and always reports Ok.
RECURSIVE write_loop_ignore_errors(_, _, _)
write_loop_ignore_errors(self, data, i) ==
    IF i > Len(data)
    THEN [rb |-> self, tag |-> "Ok"]
    ELSE write_loop_ignore_errors(push(self, data[i]).rb, data, i + 1)

\* for &item in data { self.push(item)?; } Ok(())   -- i is the 1-based position
RECURSIVE write_loop(_, _, _)
write_loop(self, data, i) ==
    IF i > Len(data)
    THEN [rb |-> self, tag |-> "Ok"]
    ELSE LET r == push(self, data[i])
         IN  IF r.tag = "Ok"
             THEN write_loop(r.rb, data, i + 1)
             ELSE [rb |-> r.rb, tag |-> r.tag]

\* Faulty write: all-or-nothing, rejects up front when data does not fit.
write_transactional(self, data) ==
    IF Len(data) > remaining_capacity(self)
    THEN [rb |-> self, tag |-> "Full"]
    ELSE write_loop(self, data, 1)

write(self, data) == write_loop(self, data, 1)

\* Faulty read loop: reports buffer.len() even when the source ran dry.
RECURSIVE read_loop_full_count(_, _, _)
read_loop_full_count(self, out, i) ==
    IF i >= Len(out)
    THEN [rb |-> self, out |-> out, n |-> Len(out)]
    ELSE LET r == pop(self)
         IN  IF r.tag = "Some"
             THEN read_loop_full_count(r.rb, [out EXCEPT ![i + 1] = r.val], i + 1)
             ELSE [rb |-> r.rb, out |-> out, n |-> Len(out)]

\* for i in 0..buffer.len() { if let Some(item) = self.pop() {..} else { return i } }
RECURSIVE read_loop(_, _, _)
read_loop(self, out, i) ==
    IF i >= Len(out)
    THEN [rb |-> self, out |-> out, n |-> Len(out)]
    ELSE LET r == pop(self)
         IN  IF r.tag = "Some"
             THEN read_loop(r.rb, [out EXCEPT ![i + 1] = r.val], i + 1)
             ELSE [rb |-> r.rb, out |-> out, n |-> i]

read(self, out) == read_loop(self, out, 0)

\* &self.buffer[a..b]: panics unless a <= b and b <= S
slice(buf, a, b) ==
    IF a <= b /\ b <= S
    THEN [tag |-> "Ok", view |-> [i \in 1..(b - a) |-> buf[a + i - 1]]]
    ELSE [tag |-> "Panic", view |-> <<>>]

\* Faulty read_slice: consumes the elements it returns.
read_slice_consuming(self, n) ==
    IF n > self.len
    THEN [rb |-> self, tag |-> "BeyondRange", view |-> <<>>]
    ELSE IF self.tail + n <= S
         THEN [rb |-> [self EXCEPT !.tail = (self.tail + n) % S, !.len = self.len - n]]
              @@ slice(self.buffer, self.tail, self.tail + n)
         ELSE [rb |-> self, tag |-> "BufferIncomplete", view |-> <<>>]

\* Faulty read_slice: strict comparison against the end of the array.
read_slice_strict(self, n) ==
    IF n > self.len
    THEN [rb |-> self, tag |-> "BeyondRange", view |-> <<>>]
    ELSE IF self.tail < self.head
         THEN [rb |-> self] @@ slice(self.buffer, self.tail, self.tail + n)
         ELSE IF self.tail + n < S
              THEN [rb |-> self] @@ slice(self.buffer, self.tail, self.tail + n)
              ELSE [rb |-> self, tag |-> "BufferIncomplete", view |-> <<>>]

\* Faulty read_slice: forgets the tail offset and views the array from slot 0.
read_slice_from_zero(self, n) ==
    IF n > self.len
    THEN [rb |-> self, tag |-> "BeyondRange", view |-> <<>>]
    ELSE IF self.tail < self.head
         THEN [rb |-> self] @@ slice(self.buffer, 0, n)
         ELSE IF self.tail + n <= S
              THEN [rb |-> self] @@ slice(self.buffer, 0, n)
              ELSE [rb |-> self, tag |-> "BufferIncomplete", view |-> <<>>]

\* Faulty read_slice: no check of the requested length against len.
read_slice_unchecked(self, n) ==
    IF self.tail < self.head
    THEN [rb |-> self] @@ slice(self.buffer, self.tail, self.tail + n)
    ELSE IF self.tail + n <= S
         THEN [rb |-> self] @@ slice(self.buffer, self.tail, self.tail + n)
         ELSE [rb |-> self, tag |-> "BufferIncomplete", view |-> <<>>]

\* read_slice borrows &self: the struct value it leaves behind is self
read_slice(self, n) ==
    IF n > self.len
    THEN [rb |-> self, tag |-> "BeyondRange", view |-> <<>>]
    ELSE IF self.tail < self.head
         THEN [rb |-> self] @@ slice(self.buffer, self.tail, self.tail + n)
         ELSE IF self.tail + n <= S
              THEN [rb |-> self] @@ slice(self.buffer, self.tail, self.tail + n)
              ELSE [rb |-> self, tag |-> "BufferIncomplete", view |-> <<>>]

(***************************************************************************)
(* Derived views of a struct value.                                        *)
(***************************************************************************)

\* The live elements, oldest first: buffer[(tail + i) mod S], i in 0..len-1.
Live(self) == [i \in 1..self.len |-> self.buffer[(self.tail + i - 1) % S]]

DropFront(q, n) == SubSeq(q, n + 1, Len(q))

(***************************************************************************)
(* State machine: any call, with any argument, at any time.  Each action   *)
(* evaluates its method once (r ranges over the singleton of the result).  *)
(***************************************************************************)

Commit(self) ==
    /\ buffer' = self.buffer
    /\ head' = self.head
    /\ tail' = self.tail
    /\ len' = self.len
    /\ S' = S
    /\ pre' = Self
    /\ queue0' = queue

InitRb ==
    /\ S \in 1..MaxS
    /\ buffer = new.buffer
    /\ head = new.head
    /\ tail = new.tail
    /\ len = new.len
    /\ call = [op |-> "new", arg |-> 0, tag |-> "Ok", val |-> 0, out |-> <<>>]
    /\ pre = new
    /\ queue = <<>>
    /\ queue0 = <<>>
    /\ pc = "prep"
    /\ hist = <<>>
    /\ got = <<>>
    /\ ok = TRUE
    /\ twin = new
    /\ agree = TRUE

Init == InitRb /\ k = 0

Push(item) ==
    \E r \in {push(Self, item)} :
        /\ Commit(r.rb)
        /\ call' = [op |-> "push", arg |-> item, tag |-> r.tag, val |-> 0, out |-> <<>>]
        /\ queue' = IF Len(queue) < S THEN Append(queue, item) ELSE queue

Pop ==
    \E r \in {pop(Self)} :
        /\ Commit(r.rb)
        /\ call' = [op |-> "pop", arg |-> 0, tag |-> r.tag, val |-> r.val, out |-> <<>>]
        /\ queue' = DropFront(queue, Min(1, Len(queue)))

Clear ==
    /\ Commit(clear(Self))
    /\ call' = [op |-> "clear", arg |-> 0, tag |-> "Ok", val |-> 0, out |-> <<>>]
    /\ queue' = <<>>

PopContinuous(count) ==
    \E r \in {pop_continuous(Self, count)} :
        /\ Commit(r.rb)
        /\ call' = [op |-> "pop_continuous", arg |-> count, tag |-> r.tag,
                    val |-> r.val, out |-> <<>>]
        /\ queue' = IF count <= Len(queue) THEN DropFront(queue, count) ELSE queue

Write(data) ==
    \E r \in {write(Self, data)} :
        /\ Commit(r.rb)
        /\ call' = [op |-> "write", arg |-> data, tag |-> r.tag, val |-> 0, out |-> <<>>]
        /\ queue' = queue \o SubSeq(data, 1, Min(Len(data), S - Len(queue)))

Read(out) ==
    \E r \in {read(Self, out)} :
        /\ Commit(r.rb)
        /\ call' = [op |-> "read", arg |-> out, tag |-> "Ok", val |-> r.n, out |-> r.out]
        /\ queue' = DropFront(queue, Min(Len(out), Len(queue)))

ReadSlice(n) ==
    \E r \in {read_slice(Self, n)} :
        /\ Commit(r.rb)
        /\ call' = [op |-> "read_slice", arg |-> n, tag |-> r.tag, val |-> 0, out |-> r.view]
        /\ queue' = queue

Capacity ==
    /\ Commit(Self)
    /\ call' = [op |-> "capacity", arg |-> 0, tag |-> "Ok", val |-> capacity(Self), out |-> <<>>]
    /\ queue' = queue

RemainingCapacity ==
    /\ Commit(Self)
    /\ call' = [op |-> "remaining_capacity", arg |-> 0, tag |-> "Ok",
                val |-> remaining_capacity(Self), out |-> <<>>]
    /\ queue' = queue

IsEmpty ==
    /\ Commit(Self)
    /\ call' = [op |-> "is_empty", arg |-> 0, tag |-> "Ok",
                val |-> IF is_empty(Self) THEN 1 ELSE 0, out |-> <<>>]
    /\ queue' = queue

IsFull ==
    /\ Commit(Self)
    /\ call' = [op |-> "is_full", arg |-> 0, tag |-> "Ok",
                val |-> IF is_full(Self) THEN 1 ELSE 0, out |-> <<>>]
    /\ queue' = queue

GetLen ==
    /\ Commit(Self)
    /\ call' = [op |-> "len", arg |-> 0, tag |-> "Ok", val |-> get_len(Self), out |-> <<>>]
    /\ queue' = queue

Next ==
    \/ \E item \in Values : Push(item) /\ UNCHANGED scvars
    \/ Pop /\ UNCHANGED scvars
    \/ Clear /\ UNCHANGED scvars
    \/ \E count \in Counts : PopContinuous(count) /\ UNCHANGED scvars
    \/ \E data \in SeqsUpTo(MaxData) : Write(data) /\ UNCHANGED scvars
    \/ \E out \in SeqsUpTo(MaxData) : Read(out) /\ UNCHANGED scvars
    \/ \E n \in Counts : ReadSlice(n) /\ UNCHANGED scvars
    \/ Capacity /\ UNCHANGED scvars
    \/ RemainingCapacity /\ UNCHANGED scvars
    \/ IsEmpty /\ UNCHANGED scvars
    \/ IsFull /\ UNCHANGED scvars
    \/ GetLen /\ UNCHANGED scvars

Spec == Init /\ [][Next]_vars

(***************************************************************************)
(* Wraparound scenario (spec section 8): from an empty buffer at any       *)
(* reachable cursor position, push S items, pop k < S, push k more, then   *)
(* pop S times.  The driver only counts calls; the buffer is driven by the *)
(* same Push and Pop actions as above.                                     *)
(***************************************************************************)

InitWrap == InitRb /\ k \in 0..(S - 1)

Popped == <<call'.tag, call'.val>>

\* arbitrary pushes and pops before the scenario starts
WrapPrepPush(item) == pc = "prep" /\ Push(item) /\ UNCHANGED scvars

WrapPrepPop == pc = "prep" /\ Pop /\ UNCHANGED scvars

WrapFill(item) ==
    /\ \/ pc = "prep" /\ len = 0
       \/ pc = "fill"
    /\ Push(item)
    /\ hist' = Append(hist, item)
    /\ ok' = (ok /\ call'.tag = "Ok")
    /\ pc' = IF Len(hist) + 1 < S THEN "fill" ELSE IF k = 0 THEN "drain" ELSE "popk"
    /\ UNCHANGED <<k, got, twin, agree>>

WrapPopK ==
    /\ pc = "popk"
    /\ Pop
    /\ IF Len(got) + 1 < k
       THEN got' = Append(got, Popped) /\ pc' = "popk"
       ELSE got' = <<>> /\ pc' = "refill"
    /\ UNCHANGED <<k, hist, ok, twin, agree>>

WrapRefill(item) ==
    /\ pc = "refill"
    /\ Push(item)
    /\ hist' = Append(hist, item)
    /\ ok' = (ok /\ call'.tag = "Ok")
    /\ pc' = IF Len(hist) + 1 < S + k THEN "refill" ELSE "drain"
    /\ UNCHANGED <<k, got, twin, agree>>

WrapDrain ==
    /\ pc = "drain"
    /\ Pop
    /\ got' = Append(got, Popped)
    /\ pc' = IF Len(got) + 1 < S THEN "drain" ELSE "done"
    /\ UNCHANGED <<k, hist, ok, twin, agree>>

NextWrap ==
    \/ \E item \in Values : WrapPrepPush(item)
    \/ WrapPrepPop
    \/ \E item \in Values : WrapFill(item)
    \/ WrapPopK
    \/ \E item \in Values : WrapRefill(item)
    \/ WrapDrain

SpecWrap == InitWrap /\ [][NextWrap]_vars

(***************************************************************************)
(* Clear scenario: a buffer is driven to any reachable state and cleared,  *)
(* then every call is made on it and on a second buffer fresh from new(),  *)
(* with the same arguments.  agree records whether the two calls returned  *)
(* the same result every time.  The single-buffer observation variables    *)
(* (call, pre, queue, queue0) are not used here and stay as they are.      *)
(***************************************************************************)

InitClear == InitRb /\ k = 0

SetRb(self) ==
    /\ buffer' = self.buffer
    /\ head' = self.head
    /\ tail' = self.tail
    /\ len' = self.len
    /\ S' = S
    /\ UNCHANGED <<call, pre, queue, queue0, k, hist, got, ok>>

\* Both buffers made the same call; same says whether the results were equal.
Both(self, other, same) ==
    /\ pc = "paired"
    /\ SetRb(self)
    /\ twin' = other
    /\ agree' = (agree /\ same)
    /\ pc' = pc

DirtyPush(item) ==
    /\ pc = "prep"
    /\ SetRb(push(Self, item).rb)
    /\ UNCHANGED <<pc, twin, agree>>

DirtyPop ==
    /\ pc = "prep"
    /\ SetRb(pop(Self).rb)
    /\ UNCHANGED <<pc, twin, agree>>

ClearDirty ==
    /\ pc = "prep"
    /\ SetRb(clear(Self))
    /\ pc' = "paired"
    /\ UNCHANGED <<twin, agree>>

BothPush(item) ==
    \E a \in {push(Self, item)}, b \in {push(twin, item)} :
        Both(a.rb, b.rb, a.tag = b.tag)

BothPop ==
    \E a \in {pop(Self)}, b \in {pop(twin)} :
        Both(a.rb, b.rb, a.tag = b.tag /\ a.val = b.val)

BothClear == Both(clear(Self), clear(twin), TRUE)

BothPopContinuous(count) ==
    \E a \in {pop_continuous(Self, count)}, b \in {pop_continuous(twin, count)} :
        Both(a.rb, b.rb, a.tag = b.tag /\ a.val = b.val)

BothWrite(data) ==
    \E a \in {write(Self, data)}, b \in {write(twin, data)} :
        Both(a.rb, b.rb, a.tag = b.tag)

BothRead(out) ==
    \E a \in {read(Self, out)}, b \in {read(twin, out)} :
        Both(a.rb, b.rb, a.n = b.n /\ a.out = b.out)

BothReadSlice(n) ==
    \E a \in {read_slice(Self, n)}, b \in {read_slice(twin, n)} :
        Both(a.rb, b.rb, a.tag = b.tag /\ a.view = b.view)

BothCapacity == Both(Self, twin, capacity(Self) = capacity(twin))

BothRemainingCapacity ==
    Both(Self, twin, remaining_capacity(Self) = remaining_capacity(twin))

BothIsEmpty == Both(Self, twin, is_empty(Self) = is_empty(twin))

BothIsFull == Both(Self, twin, is_full(Self) = is_full(twin))

BothGetLen == Both(Self, twin, get_len(Self) = get_len(twin))

NextClear ==
    \/ \E item \in Values : DirtyPush(item)
    \/ DirtyPop
    \/ ClearDirty
    \/ \E item \in Values : BothPush(item)
    \/ BothPop
    \/ BothClear
    \/ \E count \in Counts : BothPopContinuous(count)
    \/ \E data \in SeqsUpTo(MaxData) : BothWrite(data)
    \/ \E out \in SeqsUpTo(MaxData) : BothRead(out)
    \/ \E n \in Counts : BothReadSlice(n)
    \/ BothCapacity
    \/ BothRemainingCapacity
    \/ BothIsEmpty
    \/ BothIsFull
    \/ BothGetLen

SpecClear == InitClear /\ [][NextClear]_vars

(***************************************************************************)
(* Properties.                                                             *)
(***************************************************************************)

\* C1: the buffer refines a bounded FIFO queue: the live elements
\* buffer[(tail+i) mod S], i in 0..len-1, always equal the abstract queue
\* (append on push while fewer than S elements, drop from the front on
\* pop / read / pop_continuous, emptied by clear); push succeeds exactly when
\* the queue had room, and pop and read return the front of the queue.
FifoRefinement ==
    /\ Live(Self) = queue
    /\ call.op = "push" => (call.tag = "Ok" <=> Len(queue0) < S)
    /\ call.op = "pop" =>
         IF queue0 = <<>> THEN call.tag = "None"
         ELSE call.tag = "Some" /\ call.val = Head(queue0)
    /\ call.op = "read" =>
         LET n == Min(Len(call.arg), Len(queue0))
         IN  call.val = n /\ SubSeq(call.out, 1, n) = SubSeq(queue0, 1, n)

\* C1 witness: a pop returned a value while the live region still wraps
\* around the physical end of the array.
FifoRefinementWitness ==
    /\ call.op = "pop" /\ call.tag = "Some"
    /\ len >= 2 /\ tail + len > S /\ tail > 0
    /\ queue[1] # queue[2]

\* C2: capacity invariant: 0 <= len <= S in every reachable state.
CapacityInvariant == 0 <= len /\ len <= S

\* C2 witness: both ends of the range were pushed against: the buffer is full
\* and the last call was a push that was turned away.
CapacityInvariantWitness ==
    /\ len = S /\ S >= 2
    /\ call.op = "push" /\ call.tag = "Full"

\* C3: push on a full buffer returns Full and leaves storage, head, tail and
\* len unchanged; push on a buffer that is not full never returns Full.
FullRejection ==
    call.op = "push" =>
        IF pre.len = S
        THEN call.tag = "Full" /\ Self = pre
        ELSE call.tag # "Full"

\* C3 witness: a push of a value different from the oldest unread element
\* was rejected on a full buffer.
FullRejectionWitness ==
    /\ call.op = "push" /\ pre.len = S /\ call.tag = "Full"
    /\ call.arg # pre.buffer[pre.head]

\* C4: pop on an empty buffer returns None and leaves storage, head, tail and
\* len unchanged; pop on a non-empty buffer returns the oldest unread element,
\* advances tail by one modulo S and decrements len by one.
EmptyPop ==
    call.op = "pop" =>
        IF pre.len = 0
        THEN call.tag = "None" /\ Self = pre
        ELSE /\ call.tag = "Some"
             /\ call.val = pre.buffer[pre.tail]
             /\ call.val = Head(queue0)
             /\ tail = (pre.tail + 1) % S
             /\ len = pre.len - 1

\* C4 witness: pop on an empty buffer whose cursors are not at slot 0.
EmptyPopWitness ==
    /\ call.op = "pop" /\ pre.len = 0 /\ call.tag = "None"
    /\ pre.tail > 0

\* The other case of C4: a pop that moved tail across the end of the array.
PopWrapWitness ==
    /\ call.op = "pop" /\ call.tag = "Some"
    /\ S >= 2 /\ pre.tail = S - 1 /\ tail = 0

\* C5: in the wraparound scenario every push succeeds, the buffer is full
\* when the final pops start, and the S final pops return exactly the last S
\* of the S + k pushed items in the order they were pushed.
WraparoundCorrect ==
    /\ ok
    /\ (pc = "drain" /\ got = <<>>) => (len = S /\ is_full(Self))
    /\ pc = "done" => got = [i \in 1..S |-> <<"Some", hist[k + i]>>]

\* C5 witness: the scenario ran to its end with k >= 2 from a start position
\* other than slot 0, on items that are not all equal.
WraparoundCorrectWitness ==
    /\ pc = "done" /\ k >= 2 /\ Len(hist) = S + k
    /\ tail # k
    /\ \E i \in 1..(S + k - 1) : hist[i] # hist[i + 1]

\* C6: read into an output buffer of length L in a state with n elements
\* returns k = min(L, n), never an error; out[0..k] holds the k oldest elements
\* in FIFO order, out[k..L] keeps the caller's content; afterwards
\* len = n - k and tail has advanced by k modulo S.
ReadContract ==
    call.op = "read" =>
        LET L == Len(call.arg)
            n == pre.len
            c == Min(L, n)
        IN  /\ call.tag = "Ok"
            /\ call.val = c
            /\ Len(call.out) = L
            /\ \A i \in 1..c : call.out[i] = pre.buffer[(pre.tail + i - 1) % S]
            /\ SubSeq(call.out, 1, c) = SubSeq(queue0, 1, c)
            /\ \A i \in (c + 1)..L : call.out[i] = call.arg[i]
            /\ len = n - c
            /\ tail = (pre.tail + c) % S

\* C6 witness: a read that exhausted a wrapped live region of two distinct
\* elements and left a caller slot that differs from the default untouched.
ReadContractWitness ==
    /\ call.op = "read" /\ Len(call.arg) = 3 /\ pre.len = 2
    /\ pre.tail + pre.len > S
    /\ call.out[1] # call.out[2]
    /\ call.arg[1] # call.out[1]
    /\ call.arg[3] # Default

PopContinuousAtomic ==
    (call.op = "pop_continuous" /\ call.arg > pre.len) =>
        (call.tag = "BeyondRange" /\ Self = pre)

\* C8 witness: a request for more than the (non-zero) number of live elements.
PopContinuousAtomicWitness ==
    /\ call.op = "pop_continuous" /\ call.arg > pre.len
    /\ pre.len >= 1 /\ call.arg <= S

\* C9: pop_continuous(count) with count <= len succeeds, discards exactly the
\* count oldest elements, sets tail = (tail + count) mod S and
\* len = len - count, leaves head and storage unchanged and returns the
\* remaining capacity after the operation, S - (len - count).
PopContinuousSuccess ==
    (call.op = "pop_continuous" /\ call.arg <= pre.len) =>
        /\ call.tag = "Ok"
        /\ Live(Self) = DropFront(Live(pre), call.arg)
        /\ queue = DropFront(queue0, call.arg)
        /\ tail = (pre.tail + call.arg) % S
        /\ len = pre.len - call.arg
        /\ head = pre.head
        /\ buffer = pre.buffer
        /\ call.val = S - (pre.len - call.arg)

\* C9 witness: a discard of two or more elements that moved tail across the
\* end of the array and left elements behind.
PopContinuousSuccessWitness ==
    /\ call.op = "pop_continuous" /\ call.tag = "Ok"
    /\ call.arg >= 2 /\ pre.tail + call.arg > S
    /\ len >= 1

\* C10: read_slice, whether it succeeds or fails with BeyondRange or
\* BufferIncomplete, leaves len, head, tail and storage unchanged, so a
\* following pop or read returns what it would have returned without it.
ReadSliceNonMutation ==
    call.op = "read_slice" =>
        /\ Self = pre
        /\ pop(Self).tag = pop(pre).tag
        /\ pop(Self).val = pop(pre).val
        /\ \A out \in SeqsUpTo(MaxData) : read(Self, out) = read(pre, out)

\* C10 witness: a read_slice that returned a view of two or more elements.
ReadSliceNonMutationWitness ==
    /\ call.op = "read_slice" /\ call.tag = "Ok"
    /\ call.arg >= 2 /\ Len(call.out) = call.arg

\* The failing outcomes of read_slice are reached as well.
ReadSliceBeyondRangeWitness ==
    call.op = "read_slice" /\ call.tag = "BeyondRange" /\ pre.len >= 1

ReadSliceIncompleteWitness ==
    call.op = "read_slice" /\ call.tag = "BufferIncomplete"

\* C11: read_slice(n) returns BeyondRange when n > len, wherever the window
\* would lie; it returns BufferIncomplete when n <= len and the window crosses
\* the physical end of the array (tail + n > S), and in no other case.
ReadSliceErrors ==
    call.op = "read_slice" =>
        /\ call.arg > pre.len => call.tag = "BeyondRange"
        /\ (call.arg <= pre.len /\ pre.tail + call.arg > S) => call.tag = "BufferIncomplete"
        /\ call.tag = "BufferIncomplete" => (call.arg <= pre.len /\ pre.tail + call.arg > S)
        /\ call.tag = "BeyondRange" => call.arg > pre.len

\* C11 witness: a request that fits the length exactly up to the end of the
\* array was not refused, on a buffer whose live region wraps.
ReadSliceErrorsWitness ==
    /\ call.op = "read_slice" /\ call.arg >= 1
    /\ call.arg <= pre.len /\ pre.tail + call.arg = S
    /\ pre.tail + pre.len > S
    /\ call.tag = "Ok"

\* C12: read_slice(n) succeeds exactly when n <= len and tail + n <= S, and
\* the view is then the next n elements in FIFO order: the values n successive
\* pops would return.
ReadSliceSuccess ==
    call.op = "read_slice" =>
        /\ call.tag = "Ok" <=> (call.arg <= pre.len /\ pre.tail + call.arg <= S)
        /\ call.tag = "Ok" =>
             /\ Len(call.out) = call.arg
             /\ call.out = SubSeq(queue0, 1, call.arg)
             /\ call.out = read(pre, [i \in 1..call.arg |-> Default]).out
             /\ read(pre, [i \in 1..call.arg |-> Default]).n = call.arg

\* C12 witness: a view of two distinct elements that starts past slot 0.
ReadSliceSuccessWitness ==
    /\ call.op = "read_slice" /\ call.tag = "Ok"
    /\ call.arg = 2 /\ pre.tail >= 1
    /\ call.out[1] # call.out[2]

\* C13: clear sets head = tail = len = 0 and leaves every storage slot
\* unchanged; afterwards is_empty() is true and no read operation yields a
\* stale value: pop returns None, read returns 0 and writes nothing,
\* read_slice(n) for n >= 1 returns BeyondRange.
ClearContract ==
    call.op = "clear" =>
        /\ head = 0 /\ tail = 0 /\ len = 0
        /\ buffer = pre.buffer
        /\ is_empty(Self)
        /\ pop(Self).tag = "None"
        /\ \A out \in SeqsUpTo(MaxData) :
             read(Self, out).n = 0 /\ read(Self, out).out = out
        /\ \A n \in 1..(S + 1) : read_slice(Self, n).tag = "BeyondRange"

\* C13 witness: clear on a buffer that held elements differing from the
\* default, with its cursors away from slot 0.
ClearContractWitness ==
    /\ call.op = "clear"
    /\ pre.len >= 2 /\ pre.tail >= 1
    /\ \E i \in 0..(S - 1) : buffer[i] # Default

\* C14: the queries change nothing; capacity() = S; remaining_capacity() =
\* S - len(), so len() + remaining_capacity() = capacity(); is_empty() holds
\* iff len = 0 and is_full() holds iff len = S.
QueriesContract ==
    /\ call.op \in {"capacity", "remaining_capacity", "is_empty", "is_full", "len"} =>
         Self = pre
    /\ call.op = "capacity" => call.val = S
    /\ call.op = "len" => call.val = pre.len
    /\ call.op = "remaining_capacity" => call.val = S - pre.len
    /\ call.op = "is_empty" => (call.val = 1 <=> pre.len = 0)
    /\ call.op = "is_full" => (call.val = 1 <=> pre.len = S)
    /\ get_len(Self) + remaining_capacity(Self) = capacity(Self)

\* C14 witness: is_full answered false on an empty buffer whose cursors
\* coincide away from slot 0.
QueriesContractWitness ==
    /\ call.op = "is_full" /\ call.val = 0
    /\ pre.len = 0 /\ pre.head = pre.tail /\ pre.head >= 1

CursorInvariant ==
    /\ head \in 0..(S - 1)
    /\ tail \in 0..(S - 1)
    /\ head = (tail + len) % S
    /\ head = tail <=> (len = 0 \/ len = S)

\* C16 witness: after a successful pop_continuous the live region still
\* wraps (head is below tail) and the buffer is neither empty nor full.
CursorInvariantWitness ==
    /\ call.op = "pop_continuous" /\ call.tag = "Ok" /\ call.arg >= 1
    /\ head < tail /\ len >= 2 /\ len < S

\* C17: wherever read_slice(n) returns BufferIncomplete there is an m with
\* 0 < m < n such that read_slice(m) succeeds with the first m of the next n
\* elements and, after pop_continuous(m), read_slice(n - m) succeeds with the
\* remaining n - m elements in FIFO order.
SplitRecovers ==
    (call.op = "read_slice" /\ call.tag = "BufferIncomplete") =>
        \E m \in 1..(call.arg - 1) :
            LET first == read_slice(Self, m)
                adv == pop_continuous(first.rb, m)
                rest == read_slice(adv.rb, call.arg - m)
            IN  /\ first.tag = "Ok"
                /\ first.view = SubSeq(queue, 1, m)
                /\ adv.tag = "Ok"
                /\ rest.tag = "Ok"
                /\ rest.view = SubSeq(queue, m + 1, call.arg)

\* C17 witness: a refused request for three elements that are not all equal.
SplitRecoversWitness ==
    /\ call.op = "read_slice" /\ call.tag = "BufferIncomplete"
    /\ call.arg >= 3
    /\ queue[1] # queue[2]

\* C18: wherever read_slice(n) succeeds, read_slice(n) followed by
\* pop_continuous(n) yields the same n values and leaves the same head, tail,
\* len and storage as read into an output buffer of length n from that
\* state, and that read returns n.
ZeroCopyEqualsRead ==
    (call.op = "read_slice" /\ call.tag = "Ok") =>
        LET adv == pop_continuous(Self, call.arg)
        IN  /\ adv.tag = "Ok"
            /\ \A out \in [1..call.arg -> Values] :
                 LET r == read(pre, out)
                 IN  /\ r.n = call.arg
                     /\ r.out = call.out
                     /\ r.rb = adv.rb

\* C18 witness: a view of two distinct elements up to the end of the array,
\* with more elements behind it.
ZeroCopyEqualsReadWitness ==
    /\ call.op = "read_slice" /\ call.tag = "Ok"
    /\ call.arg = 2 /\ pre.tail + 2 = S /\ pre.len >= 3
    /\ call.out[1] # call.out[2]

\* C20: no storage access leaves the array and no subtraction goes below
\* zero: push writes at head < S, pop reads at tail < S, every view of
\* read_slice(n) covers tail..tail+n with tail + n <= S (tail + n <= head in
\* the tail < head branch), and len - 1, len - count and S - len are >= 0.
NoOutOfBounds ==
    /\ 0 <= head /\ head < S
    /\ 0 <= tail /\ tail < S
    /\ S - len >= 0
    /\ remaining_capacity(Self) >= 0
    /\ (call.op = "push" /\ call.tag = "Ok") => (0 <= pre.head /\ pre.head < S)
    /\ (call.op = "pop" /\ call.tag = "Some") =>
         (0 <= pre.tail /\ pre.tail < S /\ pre.len - 1 >= 0)
    /\ (call.op = "pop_continuous" /\ call.tag = "Ok") =>
         (pre.len - call.arg >= 0 /\ call.val >= 0)
    /\ call.op = "remaining_capacity" => call.val >= 0
    /\ call.op = "read_slice" =>
         /\ call.tag # "Panic"
         /\ call.tag = "Ok" =>
              /\ pre.tail + call.arg <= S
              /\ pre.tail < pre.head => pre.tail + call.arg <= pre.head

\* C20 witness: a view taken in the tail < head branch that ends exactly at
\* head, one slot before the end of the array.
NoOutOfBoundsWitness ==
    /\ call.op = "read_slice" /\ call.tag = "Ok" /\ call.arg >= 1
    /\ pre.tail < pre.head /\ pre.tail + call.arg = pre.head
    /\ pre.head = S - 1 /\ pre.tail >= 1

\* C19: after clear, any sequence of calls returns what the same sequence
\* returns on a buffer just created by new(), although the two storage
\* arrays differ in stale slots: the results of the two buffers have agreed
\* on every call so far, and their cursors and live elements are the same.
ClearLikeNew ==
    /\ agree
    /\ pc = "paired" =>
         /\ head = twin.head /\ tail = twin.tail /\ len = twin.len
         /\ Live(Self) = Live(twin)

\* C19 witness: calls were made on both buffers after the clear (elements
\* were pushed and popped, so tail has moved), a live element sits next to a
\* stale slot, and the storage arrays still differ.
ClearLikeNewWitness ==
    /\ pc = "paired" /\ agree
    /\ tail >= 1 /\ len >= 1
    /\ buffer # twin.buffer
    /\ buffer[head] # twin.buffer[head]

====
